---- MODULE Spec2Model ----
(***************************************************************************)
(* OTP Request Analysis dashboard (src/main.py).                           *)
(*                                                                         *)
(* The script is re-executed top to bottom on every render cycle.  The     *)
(* model follows one session: the CSV file on disk, the st.cache_data      *)
(* entry of load_data, the two date pickers' widget state, and the         *)
(* position of the running script with everything it has computed and      *)
(* emitted so far in the current cycle.                                    *)
(*                                                                         *)
(* Dates.  The calendar is sampled on the first day of consecutive months, *)
(* day 0 being 1 March: day d is the first of month d + 3.  A timestamp is *)
(* day * TicksPerDay + tick, tick 0 being midnight.  A date picker returns *)
(* a day; every day between two sampled days filters like one of them.     *)
(*                                                                         *)
(* Numbers.  Sums are exact integers.  A float quotient a / b * 100 is     *)
(* kept exactly as the pair (a * 100, b); b = 0 is the NaN numpy gives     *)
(* for 0 / 0 (a warning, no exception).  A comparison with NaN is false.   *)
(***************************************************************************)
EXTENDS Integers, Sequences, FiniteSets, TLC

\* ---------------------------------------------------------------- bounds

\* Longest CSV file (data rows).
MaxRows == 2
\* Sampled days: 0 .. NumDays - 1 (1 March, 1 April, 1 May, ...).
NumDays == 3
\* Distinct times of day a timestamp can carry.
TicksPerDay == 2
\* Reads of the file that the model follows (a failing load is retried).
MaxReads == 2

\* ------------------------------------------------------------- constants

\* filtered_data['otp_count'] > 16
Threshold == 16

months_ordered == <<"April", "May", "June", "July", "August">>

MonthNames ==
  <<"January", "February", "March", "April", "May", "June", "July",
    "August", "September", "October", "November", "December">>

\* ------------------------------------------------------------ the inputs

Days == 0 .. (NumDays - 1)
Ticks == 0 .. (TicksPerDay - 1)

\* A row of the CSV file as text: the event_date cell is either a
\* parseable date and time of day, or not a date at all.
RawRow(ok, d, t, o, u) ==
  [date_ok |-> ok, day |-> d, tick |-> t, otp_count |-> o, user_count |-> u]

\* Rows whose event_date is a plain calendar date.
DailyRows ==
  { RawRow(TRUE, d, 0, o, u) : d \in Days, o \in {Threshold, 20}, u \in {0, 1} }

\* Rows whose event_date carries a time of day.
TimedRows == { RawRow(TRUE, d, t, 20, 1) : d \in Days, t \in Ticks }

SeqsUpTo(S, n) == UNION { [1 .. k -> S] : k \in 1 .. n }

\* (2024-04-01, otp_count=10, user_count=100), (2024-04-01, 20, 5)
ScenarioFile == << RawRow(TRUE, 1, 0, 10, 100), RawRow(TRUE, 1, 0, 20, 5) >>

\* 1 user of 200 over the threshold: exactly 0.5 percent.
BoundaryFile == << RawRow(TRUE, 1, 0, 20, 1), RawRow(TRUE, 1, 0, 10, 199) >>

\* A file whose event_date column does not parse.
BadFile == << RawRow(FALSE, 0, 0, 10, 1) >>

Files ==
  SeqsUpTo(DailyRows, MaxRows) \cup SeqsUpTo(TimedRows, MaxRows)
    \cup {ScenarioFile, BoundaryFile, BadFile}

\* ------------------------------------------------------------- load_data

\* pd.to_datetime of a parseable cell: the timestamp.
to_datetime(day, tick) == day * TicksPerDay + tick

\* Timestamp.date(): the calendar day, the time of day dropped.
DateOf(ts) == ts \div TicksPerDay

\* .dt.month, .dt.month_name(), .dt.year of a timestamp.
MonthOf(ts) == ((DateOf(ts) + 2) % 12) + 1
MonthNameOf(ts) == MonthNames[MonthOf(ts)]
YearOf(ts) == 2024 + ((DateOf(ts) + 2) \div 12)

Parseable(f) == \A i \in DOMAIN f : f[i].date_ok

ParseRow(r) ==
  LET ts == to_datetime(r.day, r.tick)
  IN  [event_date |-> ts, otp_count |-> r.otp_count, user_count |-> r.user_count,
       month |-> MonthOf(ts), month_name |-> MonthNameOf(ts), year |-> YearOf(ts)]

\* The body of load_data on a file whose dates parse.
ParseFile(f) == [i \in DOMAIN f |-> ParseRow(f[i])]

\* ---------------------------------------------------------- the sidebar

RECURSIVE SeqMin(_)
SeqMin(s) ==
  IF Len(s) = 1 THEN s[1]
  ELSE LET m == SeqMin(Tail(s)) IN IF s[1] <= m THEN s[1] ELSE m

RECURSIVE SeqMax(_)
SeqMax(s) ==
  IF Len(s) = 1 THEN s[1]
  ELSE LET m == SeqMax(Tail(s)) IN IF s[1] >= m THEN s[1] ELSE m

EventDates(d) == [i \in DOMAIN d |-> d[i].event_date]

\* data['event_date'].min() / .max() as st.date_input takes them: a
\* Timestamp given as value, min_value or max_value becomes its date.
MinDate(d) == DateOf(SeqMin(EventDates(d)))
MaxDate(d) == DateOf(SeqMax(EventDates(d)))

\* st.date_input: the widget's own state when the user has set it, the
\* default otherwise.  sel is <<>> (untouched) or <<day>>.
date_input(sel, default) == IF sel = <<>> THEN default ELSE sel[1]

\* pd.to_datetime of a datetime.date: midnight of that day.
DateToTimestamp(day) == to_datetime(day, 0)

\* ------------------------------------------------- filter and key metrics

InRange(r, lo, hi) == r.event_date >= lo /\ r.event_date <= hi

\* data[(data['event_date'] >= start_date) & (data['event_date'] <= end_date)]
FilterData(d, lo, hi) == SelectSeq(d, LAMBDA r : InRange(r, lo, hi))

RECURSIVE SumUserCount(_)
SumUserCount(rows) ==
  IF rows = <<>> THEN 0 ELSE Head(rows).user_count + SumUserCount(Tail(rows))

\* Mutant: the threshold itself counted as over it.
OverThresholdInclusive(r) == r.otp_count >= Threshold

OverThreshold(r) == r.otp_count > Threshold

\* Mutant: the total taken over the rows at or under the threshold only.
TotalUsersUnderOnly(fd) ==
  SumUserCount(SelectSeq(fd, LAMBDA r : ~(r.otp_count > Threshold)))

TotalUsers(fd) == SumUserCount(fd)

UsersOverThreshold(fd) == SumUserCount(SelectSeq(fd, OverThreshold))

\* (a / b) * 100 in floating point.
Percent(a, b) == [finite |-> b # 0, num |-> a * 100, den |-> b]

\* Series.max(): NaN on an empty series.
SeriesMax(s) ==
  IF s = <<>> THEN [nan |-> TRUE, val |-> 0] ELSE [nan |-> FALSE, val |-> SeqMax(s)]

OtpCounts(rows) == [i \in DOMAIN rows |-> rows[i].otp_count]

MaxOtpCount(fd) == SeriesMax(OtpCounts(fd))

\* f"{p:.2f}%": "nan%" for NaN, else the value in hundredths of a percent.
Format2f(p) ==
  IF p.finite
    THEN [nan |-> FALSE, hundredths |-> (2 * 100 * p.num + p.den) \div (2 * p.den)]
    ELSE [nan |-> TRUE, hundredths |-> 0]

\* Mutant: p <= 0.5
AtMostHalf(p) == p.finite /\ 2 * p.num <= p.den

\* p < 0.5
LessThanHalf(p) == p.finite /\ 2 * p.num < p.den

\* ------------------------------------------------------- monthly trends

\* filtered_data['month_name'].unique(): the names in order of appearance.
RECURSIVE Unique(_)
Unique(s) ==
  IF s = <<>> THEN <<>>
  ELSE LET h == Head(s)
       IN  <<h>> \o Unique(SelectSeq(Tail(s), LAMBDA x : x # h))

MonthsInRange(fd) == Unique([i \in DOMAIN fd |-> fd[i].month_name])

Contains(s, x) == \E i \in DOMAIN s : s[i] = x

\* Mutant: the months as the data has them, list(months_in_range).
MonthsAsFound(fd) == MonthsInRange(fd)

\* Mutant: a tab for every month of the fixed list.
AllMonthsOrdered(fd) == months_ordered

\* [month for month in months_ordered if month in months_in_range]
AvailableMonths(fd) ==
  SelectSeq(months_ordered, LAMBDA m : Contains(MonthsInRange(fd), m))

\* filtered_data[filtered_data['month_name'] == month]
MonthData(fd, m) == SelectSeq(fd, LAMBDA r : r.month_name = m)

RECURSIVE Ascending(_)
Ascending(S) ==
  IF S = {} THEN <<>>
  ELSE LET m == CHOOSE x \in S : \A y \in S : x <= y
       IN  <<m>> \o Ascending(S \ {m})

\* The sum of one group of rows.groupby('otp_count')['user_count'].sum()
GroupSum(rows, k) == SumUserCount(SelectSeq(rows, LAMBDA r : r.otp_count = k))

\* rows.groupby('otp_count')['user_count'].sum().reset_index(): one row
\* per distinct otp_count, ascending.
GroupByOtpCount(rows) ==
  LET keys == Ascending({ rows[i].otp_count : i \in DOMAIN rows })
  IN  [k \in DOMAIN keys |->
         [otp_count |-> keys[k], user_count |-> GroupSum(rows, keys[k])]]

UserCounts(rows) == [i \in DOMAIN rows |-> rows[i].user_count]

\* One month's chart and the metric under it; the builtin max() raises
\* ValueError on an empty series.
MonthChart(fd, m) ==
  LET month_data == MonthData(fd, m)
      monthly_otp == GroupByOtpCount(month_data)
      month_total == SumUserCount(month_data)
      month_over == SumUserCount(SelectSeq(month_data, OverThreshold))
  IN  [month |-> m,
       series |-> monthly_otp,
       y1 |-> SeqMax(UserCounts(monthly_otp)),
       month_over_threshold |-> month_over,
       month_percent |-> Format2f(Percent(month_over, month_total))]

\* --------------------------------------------------- narrative, summary

NarrativeWord(p) ==
  IF LessThanHalf(p) THEN "appropriate" ELSE "potentially too restrictive"

Banner(p) == IF LessThanHalf(p) THEN "success" ELSE "warning"

\* Mutant: the summary taken over the rows of the tabbed months only.
OtpSummaryInSeason(fd) ==
  LET g == GroupByOtpCount(SelectSeq(fd, LAMBDA r : Contains(months_ordered, r.month_name)))
      colsum == SumUserCount(g)
  IN  [k \in DOMAIN g |->
         [otp_count |-> g[k].otp_count, user_count |-> g[k].user_count,
          percentage |-> Percent(g[k].user_count, colsum)]]

\* otp_summary with its percentage column.
OtpSummary(fd) ==
  LET g == GroupByOtpCount(fd)
      colsum == SumUserCount(g)
  IN  [k \in DOMAIN g |->
         [otp_count |-> g[k].otp_count, user_count |-> g[k].user_count,
          percentage |-> Percent(g[k].user_count, colsum)]]

\* filtered_data.to_csv(index=False): the header, then one line per row.
ToCsv(fd) ==
  << <<"event_date", "otp_count", "user_count", "month", "month_name", "year">> >>
    \o [i \in DOMAIN fd |->
          <<fd[i].event_date, fd[i].otp_count, fd[i].user_count,
            fd[i].month, fd[i].month_name, fd[i].year>>]

\* ----------------------------------------------------------------- state

VARIABLES
  file,                   \* the CSV file on disk
  cache,                  \* st.cache_data's entry for load_data
  reads,                  \* how often pd.read_csv has read the file
  start_sel, end_sel,     \* the date pickers' widget state: <<>> or <<day>>
  pc,                     \* where the running script is
  error,                  \* the exception that ended the cycle
  data,
  start_date, end_date,
  filtered_data,
  total_users, users_over_threshold, percent_over_threshold, max_otp_count,
  shown_percent,          \* what the "% Over Threshold" metric displays
  available_months,
  tab,                    \* the loop index over the tabs
  charts,
  narrative,
  banners,
  otp_summary,
  csv

session == <<file, cache, reads, start_sel, end_sel>>

metrics ==
  <<filtered_data, total_users, users_over_threshold, percent_over_threshold,
    max_otp_count, shown_percent>>

rendering == <<available_months, tab, charts, narrative, banners, otp_summary, csv>>

vars == <<session, pc, error, data, start_date, end_date, metrics, rendering>>

NoData == [loaded |-> FALSE, value |-> <<>>]

NaNPercent == [finite |-> FALSE, num |-> 0, den |-> 0]

\* Nothing computed or emitted yet in this cycle.
FreshCycle ==
  /\ error = "none"
  /\ data = <<>>
  /\ start_date = 0
  /\ end_date = 0
  /\ filtered_data = <<>>
  /\ total_users = 0
  /\ users_over_threshold = 0
  /\ percent_over_threshold = NaNPercent
  /\ max_otp_count = SeriesMax(<<>>)
  /\ shown_percent = Format2f(NaNPercent)
  /\ available_months = <<>>
  /\ tab = 0
  /\ charts = <<>>
  /\ narrative = ""
  /\ banners = <<>>
  /\ otp_summary = <<>>
  /\ csv = <<>>

Init ==
  /\ file \in Files
  /\ cache = NoData
  /\ reads = 0
  /\ start_sel = <<>>
  /\ end_sel = <<>>
  /\ pc = "run"
  /\ FreshCycle

\* --------------------------------------------------------------- actions

\* Mutant: load_data without the cache decorator's lookup.
LoadDataUncached ==
  /\ pc = "run"
  /\ reads < MaxReads
  /\ reads' = reads + 1
  /\ IF Parseable(file)
       THEN /\ cache' = [loaded |-> TRUE, value |-> ParseFile(file)]
            /\ data' = ParseFile(file)
            /\ pc' = "sidebar"
            /\ UNCHANGED error
       ELSE /\ error' = "DateParseError"
            /\ pc' = "error"
            /\ UNCHANGED <<cache, data>>
  /\ UNCHANGED <<file, start_sel, end_sel, start_date, end_date, metrics, rendering>>

\* data = load_data() under @st.cache_data: a cached result is returned
\* without running the body; otherwise the body reads the file, and only a
\* result it returns is stored (an exception is not).
LoadData ==
  /\ pc = "run"
  /\ IF cache.loaded
       THEN /\ data' = cache.value
            /\ pc' = "sidebar"
            /\ UNCHANGED <<cache, reads, error>>
       ELSE /\ reads < MaxReads
            /\ reads' = reads + 1
            /\ IF Parseable(file)
                 THEN /\ cache' = [loaded |-> TRUE, value |-> ParseFile(file)]
                      /\ data' = ParseFile(file)
                      /\ pc' = "sidebar"
                      /\ UNCHANGED error
                 ELSE /\ error' = "DateParseError"
                      /\ pc' = "error"
                      /\ UNCHANGED <<cache, data>>
  /\ UNCHANGED <<file, start_sel, end_sel, start_date, end_date, metrics, rendering>>

\* The two date pickers and the conversion of what they return.
Sidebar ==
  /\ pc = "sidebar"
  /\ start_date' = DateToTimestamp(date_input(start_sel, MinDate(data)))
  /\ end_date' = DateToTimestamp(date_input(end_sel, MaxDate(data)))
  /\ pc' = "metrics"
  /\ UNCHANGED <<session, error, data, metrics, rendering>>

\* The filter, the data preview and the four key metrics.
KeyMetrics ==
  /\ pc = "metrics"
  /\ LET fd == FilterData(data, start_date, end_date)
         p == Percent(UsersOverThreshold(fd), TotalUsers(fd))
     IN  /\ filtered_data' = fd
         /\ total_users' = TotalUsers(fd)
         /\ users_over_threshold' = UsersOverThreshold(fd)
         /\ percent_over_threshold' = p
         /\ max_otp_count' = MaxOtpCount(fd)
         /\ shown_percent' = Format2f(p)
  /\ pc' = "tabs"
  /\ UNCHANGED <<session, error, data, start_date, end_date, rendering>>

\* available_months and st.tabs, which raises on an empty list of labels.
MonthTabs ==
  /\ pc = "tabs"
  /\ available_months' = AvailableMonths(filtered_data)
  /\ IF AvailableMonths(filtered_data) = <<>>
       THEN /\ error' = "StreamlitAPIException"
            /\ pc' = "error"
            /\ UNCHANGED tab
       ELSE /\ tab' = 1
            /\ pc' = "tab"
            /\ UNCHANGED error
  /\ UNCHANGED <<session, data, start_date, end_date, metrics,
                 charts, narrative, banners, otp_summary, csv>>

\* One pass of the loop over the tabs.
RenderTab ==
  /\ pc = "tab"
  /\ LET month == available_months[tab]
     IN  IF GroupByOtpCount(MonthData(filtered_data, month)) = <<>>
           THEN /\ error' = "ValueError"
                /\ pc' = "error"
                /\ UNCHANGED <<tab, charts>>
           ELSE /\ charts' = Append(charts, MonthChart(filtered_data, month))
                /\ IF tab < Len(available_months)
                     THEN /\ tab' = tab + 1
                          /\ pc' = "tab"
                     ELSE /\ pc' = "narrative"
                          /\ UNCHANGED tab
                /\ UNCHANGED error
  /\ UNCHANGED <<session, data, start_date, end_date, metrics,
                 available_months, narrative, banners, otp_summary, csv>>

\* The threshold analysis text and the banner under it.
ThresholdAnalysis ==
  /\ pc = "narrative"
  /\ narrative' = NarrativeWord(percent_over_threshold)
  /\ banners' = Append(banners, Banner(percent_over_threshold))
  /\ pc' = "summary"
  /\ UNCHANGED <<session, error, data, start_date, end_date, metrics,
                 available_months, tab, charts, otp_summary, csv>>

\* The summary table by OTP count.
DataSummary ==
  /\ pc = "summary"
  /\ otp_summary' = OtpSummary(filtered_data)
  /\ pc' = "export"
  /\ UNCHANGED <<session, error, data, start_date, end_date, metrics,
                 available_months, tab, charts, narrative, banners, csv>>

\* The download button.
Download ==
  /\ pc = "export"
  /\ csv' = ToCsv(filtered_data)
  /\ pc' = "done"
  /\ UNCHANGED <<session, error, data, start_date, end_date, metrics,
                 available_months, tab, charts, narrative, banners, otp_summary>>

CycleOver == pc \in {"done", "error"}

\* The next cycle starts from the top with nothing computed.
StartCycle ==
  /\ pc' = "run"
  /\ error' = "none"
  /\ data' = <<>>
  /\ start_date' = 0
  /\ end_date' = 0
  /\ filtered_data' = <<>>
  /\ total_users' = 0
  /\ users_over_threshold' = 0
  /\ percent_over_threshold' = NaNPercent
  /\ max_otp_count' = SeriesMax(<<>>)
  /\ shown_percent' = Format2f(NaNPercent)
  /\ available_months' = <<>>
  /\ tab' = 0
  /\ charts' = <<>>
  /\ narrative' = ""
  /\ banners' = <<>>
  /\ otp_summary' = <<>>
  /\ csv' = <<>>

\* The pickers are on the page once the sidebar has run.
PickersShown == CycleOver /\ data # <<>>

\* The user sets the start date, within the picker's bounds; the script reruns.
ChangeStart(d) ==
  /\ PickersShown
  /\ d \in MinDate(data) .. MaxDate(data)
  /\ start_sel # <<d>>
  /\ start_sel' = <<d>>
  /\ StartCycle
  /\ UNCHANGED <<file, cache, reads, end_sel>>

\* The user sets the end date.
ChangeEnd(d) ==
  /\ PickersShown
  /\ d \in MinDate(data) .. MaxDate(data)
  /\ end_sel # <<d>>
  /\ end_sel' = <<d>>
  /\ StartCycle
  /\ UNCHANGED <<file, cache, reads, start_sel>>

\* A rerun with the inputs as they are.
Rerun ==
  /\ CycleOver
  /\ StartCycle
  /\ UNCHANGED session

\* Between two cycles the file on disk is replaced by another one.
FileReplaced ==
  /\ CycleOver
  /\ file # ScenarioFile
  /\ file' = ScenarioFile
  /\ UNCHANGED <<cache, reads, start_sel, end_sel, pc, error, data,
                 start_date, end_date, metrics, rendering>>

Next ==
  \/ LoadData
  \/ Sidebar
  \/ KeyMetrics
  \/ MonthTabs
  \/ RenderTab
  \/ ThresholdAnalysis
  \/ DataSummary
  \/ Download
  \/ \E d \in Days : ChangeStart(d)
  \/ \E d \in Days : ChangeEnd(d)
  \/ Rerun
  \/ FileReplaced

Spec == Init /\ [][Next]_vars

\* ------------------------------------------------------------ properties

\* How far the current cycle has come.
MetricsShown ==
  \/ pc \in {"tabs", "tab", "narrative", "summary", "export", "done"}
  \/ pc = "error" /\ error \in {"StreamlitAPIException", "ValueError"}

TabsBuilt ==
  \/ pc \in {"tab", "narrative", "summary", "export", "done"}
  \/ pc = "error" /\ error \in {"StreamlitAPIException", "ValueError"}

NarrativeShown == pc \in {"summary", "export", "done"}

SummaryShown == pc \in {"export", "done"}

\* Reference definitions, over sets of row numbers.
RowsInRange == { i \in DOMAIN data : start_date <= data[i].event_date
                                      /\ data[i].event_date <= end_date }

RECURSIVE RefSum(_, _)
RefSum(rows, I) ==
  IF I = {} THEN 0
  ELSE LET i == CHOOSE j \in I : TRUE
       IN  rows[i].user_count + RefSum(rows, I \ {i})

RECURSIVE RefNumSum(_, _)
RefNumSum(rows, I) ==
  IF I = {} THEN 0
  ELSE LET i == CHOOSE j \in I : TRUE
       IN  rows[i].percentage.num + RefNumSum(rows, I \ {i})

IsSubsequenceOf(s, d, I) ==
  /\ Len(s) = Cardinality(I)
  /\ \E f \in [DOMAIN s -> I] :
       /\ \A i, j \in DOMAIN s : i < j => f[i] < f[j]
       /\ \A i \in DOMAIN s : s[i] = d[f[i]]

\* Every event_date is a plain calendar date (midnight).
CalendarDates(d) ==
  \A i \in DOMAIN d : d[i].event_date = DateToTimestamp(DateOf(d[i].event_date))

\* C1 (as claimed): a cycle whose date range excludes every row ends
\* without an error, every step reached, with total_users 0 and the
\* percentage shown as 0 (the code has no "N/A").  Stated for datasets of
\* plain calendar dates, where only the pickers can exclude every row.
C1_EmptyRangeRendersToTheEnd ==
  (CycleOver /\ MetricsShown /\ CalendarDates(data) /\ RowsInRange = {}) =>
    /\ pc = "done"
    /\ total_users = 0
    /\ ~shown_percent.nan
    /\ shown_percent.hundredths = 0

\* C2 (as claimed): whenever the filtered set is non-empty, the percentage
\* over the threshold is a defined number between 0 and 100.
C2_PercentWithinZeroAndHundred ==
  (MetricsShown /\ filtered_data # <<>>) =>
    /\ percent_over_threshold.finite
    /\ 0 <= percent_over_threshold.num
    /\ percent_over_threshold.num <= 100 * percent_over_threshold.den

\* C3: with user_count >= 0 in every row, users_over_threshold never
\* exceeds total_users, whatever the filter bounds.
C3_OverThresholdAtMostTotal ==
  /\ \A i \in DOMAIN data : data[i].user_count >= 0
  /\ users_over_threshold <= total_users

C3_Witness ==
  /\ MetricsShown
  /\ users_over_threshold > 0
  /\ users_over_threshold < total_users
  /\ start_sel # <<>>

\* C4: the metrics equal their reference definitions over exactly the rows
\* with start_date <= event_date <= end_date: total_users the sum of
\* user_count, users_over_threshold the sum over the rows with otp_count
\* strictly above 16, max_otp_count the largest otp_count; the two rows
\* (10, 100) and (20, 5) give 105, 5 and 20.
C4_MetricsEqualReference ==
  MetricsShown =>
    /\ IsSubsequenceOf(filtered_data, data, RowsInRange)
    /\ total_users = RefSum(data, RowsInRange)
    /\ users_over_threshold =
         RefSum(data, { i \in RowsInRange : data[i].otp_count > 16 })
    /\ RowsInRange # {} =>
         /\ ~max_otp_count.nan
         /\ \E i \in RowsInRange : data[i].otp_count = max_otp_count.val
         /\ \A i \in RowsInRange : data[i].otp_count <= max_otp_count.val
    /\ (data = ParseFile(ScenarioFile) /\ Len(filtered_data) = 2) =>
         /\ total_users = 105
         /\ users_over_threshold = 5
         /\ max_otp_count.val = 20

C4_Witness ==
  /\ MetricsShown
  /\ Len(filtered_data) = 2
  /\ filtered_data[1].otp_count = 16 /\ filtered_data[1].user_count = 1
  /\ filtered_data[2].otp_count = 20 /\ filtered_data[2].user_count = 1
  /\ total_users = 2
  /\ users_over_threshold = 1

\* C5 (as claimed): with both pickers at their defaults the filter returns
\* every row of the loaded dataset, in the original order.
C5_DefaultRangeKeepsEveryRow ==
  (MetricsShown /\ start_sel = <<>> /\ end_sel = <<>>) => filtered_data = data

\* C6: the month tabs are a subsequence of April, May, June, July, August:
\* a month has a tab exactly when it is in that list and some filtered row
\* falls in it; no other month and no month twice.
C6_TabsFollowTheFixedOrder ==
  TabsBuilt =>
    /\ \A k \in 1 .. Len(MonthNames) :
         Contains(available_months, MonthNames[k]) <=>
           /\ MonthNames[k] \in {"April", "May", "June", "July", "August"}
           /\ \E i \in DOMAIN filtered_data : filtered_data[i].month = k
    /\ \A i, j \in DOMAIN available_months :
         i < j =>
           \E a, b \in DOMAIN months_ordered :
             /\ a < b
             /\ months_ordered[a] = available_months[i]
             /\ months_ordered[b] = available_months[j]

C6_Witness ==
  /\ TabsBuilt
  /\ available_months = <<"April">>
  /\ \E i \in DOMAIN filtered_data : filtered_data[i].month_name = "March"

\* C7 (as claimed): the file is read at most once, and the cached dataset
\* is never changed.
C7_FileReadAtMostOnce ==
  [][reads' <= 1 /\ (cache.loaded => cache' = cache)]_vars

\* C7 (amended): the file is read at most once by a load that completes:
\* once load_data has returned, no step reads the file again or changes
\* the cached dataset, and every later cycle starts from that dataset.  A
\* load that raises stores nothing, so the next cycle reads the file again.
C7_CompletedLoadIsKept ==
  [][/\ cache.loaded => (cache' = cache /\ reads' = reads)
     /\ pc' = "sidebar" => (cache'.loaded /\ data' = cache'.value)]_vars

C7_Witness ==
  /\ pc = "sidebar"
  /\ cache.loaded
  /\ Parseable(file)
  /\ ParseFile(file) # cache.value
  /\ data = cache.value
  /\ start_sel # <<>>

\* C8: a cycle that reaches the narrative emits exactly one banner, and
\* the word and the banner agree: "appropriate" and success exactly when
\* users_over_threshold * 200 < total_users, else "potentially too
\* restrictive" and warning; exactly 0.5 percent gives the warning.
C8_BannerAgreesWithNarrative ==
  IF NarrativeShown
    THEN /\ Len(banners) = 1
         /\ IF users_over_threshold * 200 < total_users
              THEN narrative = "appropriate" /\ banners[1] = "success"
              ELSE /\ narrative = "potentially too restrictive"
                   /\ banners[1] = "warning"
    ELSE banners = <<>>

C8_Witness ==
  /\ NarrativeShown
  /\ total_users > 0
  /\ users_over_threshold * 200 = total_users
  /\ banners = <<"warning">>

\* C9: every month that gets a tab has a non-empty series by otp_count, so
\* the maximum for the threshold line is taken over at least one value and
\* no cycle ends in the empty-sequence ValueError.
C9_TabSeriesNeverEmpty ==
  /\ error # "ValueError"
  /\ TabsBuilt =>
       \A i \in DOMAIN available_months :
         GroupByOtpCount(MonthData(filtered_data, available_months[i])) # <<>>
  /\ \A c \in DOMAIN charts :
       /\ charts[c].series # <<>>
       /\ \E k \in DOMAIN charts[c].series :
            charts[c].series[k].user_count = charts[c].y1

C9_Witness ==
  /\ pc = "narrative"
  /\ Len(charts) = 2
  /\ charts[1].month = "April"
  /\ charts[2].month = "May"

\* C10: the summary table has one row per distinct otp_count of the
\* filtered data, carrying the sum of user_count over the filtered rows
\* with that otp_count; the column sums to total_users and, when that is
\* positive, the shares sum to 100; rows of months without a tab count.
C10_SummaryCoversFilteredData ==
  SummaryShown =>
    /\ { otp_summary[k].otp_count : k \in DOMAIN otp_summary }
         = { filtered_data[i].otp_count : i \in DOMAIN filtered_data }
    /\ \A j, k \in DOMAIN otp_summary :
         otp_summary[j].otp_count = otp_summary[k].otp_count => j = k
    /\ \A k \in DOMAIN otp_summary :
         /\ otp_summary[k].user_count =
              RefSum(filtered_data,
                     { i \in DOMAIN filtered_data :
                         filtered_data[i].otp_count = otp_summary[k].otp_count })
         /\ otp_summary[k].percentage.den = total_users
    /\ RefSum(otp_summary, DOMAIN otp_summary) = total_users
    /\ total_users > 0 =>
         RefNumSum(otp_summary, DOMAIN otp_summary) = 100 * total_users

C10_Witness ==
  /\ SummaryShown
  /\ Len(otp_summary) = 2
  /\ total_users = 2
  /\ \E i \in DOMAIN filtered_data :
       filtered_data[i].month_name = "March" /\ filtered_data[i].user_count = 1

====
